---- MODULE Spec2Model ----
(***************************************************************************)
(* A model of preboot's inline code generator                              *)
(* (src/lib/api/inline.preboot.code.ts): the options merge and validation, *)
(* the procedure registry, the function-aware serializer with its splice   *)
(* loop, and the three emission functions.                                 *)
(*                                                                         *)
(* JavaScript strings are sequences of one-character strings; indices in   *)
(* the JavaScript helpers (IndexOf, Substring) are 0-based as in the code. *)
(***************************************************************************)
EXTENDS Integers, Sequences, FiniteSets, TLC

VARIABLES
  defaultOptions,  \* the exported defaultOptions object (mutable: it is a plain object)
  registry,        \* source text of every procedure of event.recorder / get-node-key
  input,           \* the value the caller holds for stringifyWithFunctions
  pc,              \* "idle", or "loop" while a call is inside the splice loop
  call,            \* the call in progress: its function, argument and the steps it ran
  str,             \* stringifyWithFunctions: the working string
  startFuncIdx,    \* stringifyWithFunctions: index of the first start marker, or -1
  origin,          \* history: for each character of str, where it comes from
  iters,           \* number of splice-loop iterations of the call in progress
  result,          \* what the last completed call returned or threw
  tracked          \* history: one earlier completed call, kept for comparison

vars == <<defaultOptions, registry, input, pc, call, str, startFuncIdx,
         origin, iters, result, tracked>>

(***************************************************************************)
(* Bounds of the model.                                                    *)
(***************************************************************************)
MaxIters == 4      \* splice-loop iterations explored per call
MaxPieces == 2     \* pieces a caller-supplied text is built from
MaxOcc == 2        \* occurrences of the module prefix in one procedure source
MaxSets == 2       \* option sets passed to one assign call

(***************************************************************************)
(* Characters and text.                                                    *)
(***************************************************************************)
QUOTE == "\""
BSL == "\\"
NL == "\n"
TAB == "\t"

Min(S) == CHOOSE x \in S : \A y \in S : x <= y

RECURSIVE Concat(_)
Concat(ss) == IF ss = <<>> THEN <<>> ELSE Head(ss) \o Concat(Tail(ss))

RECURSIVE Join(_, _)
Join(ss, sep) ==
  IF ss = <<>> THEN <<>>
  ELSE IF Len(ss) = 1 THEN ss[1]
  ELSE ss[1] \o sep \o Join(Tail(ss), sep)

RECURSIVE Rep(_, _)
Rep(k, s) == IF k = 0 THEN <<>> ELSE s \o Rep(k - 1, s)

\* The positions (1-based) at which pat occurs in s.
Hits(s, pat) ==
  {i \in 1..(Len(s) - Len(pat) + 1) :
     s[i] = pat[1] /\ SubSeq(s, i, i + Len(pat) - 1) = pat}

CountOcc(s, pat) == Cardinality(Hits(s, pat))

\* String.prototype.indexOf(pat): 0-based, -1 when absent.
IndexOf(s, pat) == IF Hits(s, pat) = {} THEN -1 ELSE Min(Hits(s, pat)) - 1

Clamp(i, n) == IF i < 0 THEN 0 ELSE IF i > n THEN n ELSE i

\* String.prototype.substring(a, b): both ends clamped to [0, length], swapped
\* when a > b.
Substring(s, a, b) ==
  LET ca == Clamp(a, Len(s))
      cb == Clamp(b, Len(s))
      lo == IF ca <= cb THEN ca ELSE cb
      hi == IF ca <= cb THEN cb ELSE ca
  IN SubSeq(s, lo + 1, hi)

\* String.prototype.substring(a).
SubstringFrom(s, a) == Substring(s, a, Len(s))

\* String.prototype.replace(pat, by) with a string pattern: the first occurrence only.
ReplaceFirst(s, pat, by) ==
  LET i == IndexOf(s, pat)
  IN IF i < 0 THEN s
     ELSE Substring(s, 0, i) \o by \o SubstringFrom(s, i + Len(pat))

(***************************************************************************)
(* Values: strings, literals (booleans, numbers, null, held as their JSON  *)
(* text), functions (held as their source text), arrays, objects (keys in  *)
(* insertion order) and undefined.                                         *)
(***************************************************************************)
Val(t, s, keys, kids) == [t |-> t, s |-> s, keys |-> keys, kids |-> kids]
StrV(s) == Val("str", s, <<>>, <<>>)
LitV(s) == Val("lit", s, <<>>, <<>>)
FnV(src) == Val("fn", src, <<>>, <<>>)
ArrV(items) == Val("arr", <<>>, <<>>, items)
ObjV(keys, kids) == Val("obj", <<>>, keys, kids)
Undefined == Val("undef", <<>>, <<>>, <<>>)
TrueV == LitV(<<"t","r","u","e">>)
FalseV == LitV(<<"f","a","l","s","e">>)

(***************************************************************************)
(* stringifyWithFunctions, lines 232-263.                                  *)
(***************************************************************************)
FUNC_START == <<"S","T","A","R","T","_","F","U","N","C","T","I","O","N","_","H","E","R","E">>
FUNC_STOP == <<"S","T","O","P","_","F","U","N","C","T","I","O","N","_","H","E","R","E">>

\* JSON's escaping of one character inside a string.
EscapeChar(c) ==
  CASE c = QUOTE -> <<BSL, QUOTE>>
    [] c = BSL -> <<BSL, BSL>>
    [] c = NL -> <<BSL, "n">>
    [] c = TAB -> <<BSL, "t">>
    [] OTHER -> <<c>>

\* JSON's encoding of a string: quoted, every character escaped.
JsonQuote(s) == <<QUOTE>> \o Concat([i \in 1..Len(s) |-> EscapeChar(s[i])]) \o <<QUOTE>>

\* The replacer's test, line 239: the value is a function.
IsCallable(v) == v.t = "fn"

\* The replacer, lines 237-244, with start marker a and stop marker b: a
\* function becomes the string of its source between the two markers, every
\* other value is kept.
ReplacerWith(v, a, b) == IF IsCallable(v) THEN StrV(a \o v.s \o b) ELSE v

\* JSON.stringify(obj, replacer): every value passes through the replacer first;
\* an undefined field is left out of an object and is null in an array.
RECURSIVE JsonStringifyWith(_, _, _)
JsonStringifyWith(v0, a, b) ==
  LET v == ReplacerWith(v0, a, b)
  IN CASE v.t = "str" -> JsonQuote(v.s)
       [] v.t = "lit" -> v.s
       [] v.t = "undef" -> <<"n","u","l","l">>
       [] v.t = "arr" ->
            <<"[">>
            \o Join([i \in 1..Len(v.kids) |-> JsonStringifyWith(v.kids[i], a, b)], <<",">>)
            \o <<"]">>
       [] v.t = "obj" ->
            LET idx == SelectSeq([i \in 1..Len(v.keys) |-> i],
                                 LAMBDA i : v.kids[i].t # "undef")
            IN <<"{">>
               \o Join([j \in 1..Len(idx) |->
                          JsonQuote(v.keys[idx[j]]) \o <<":">>
                          \o JsonStringifyWith(v.kids[idx[j]], a, b)], <<",">>)
               \o <<"}">>

\* The first statement of stringifyWithFunctions, lines 237-244.
JsonStringify(v) == JsonStringifyWith(v, FUNC_START, FUNC_STOP)

\* fn.replace(/\\n/g, '\n'), line 255: every backslash followed by n becomes one
\* newline. Two matches never overlap (a match ends in n, not in a backslash).
DROPPED == ""
UnescapeNewlines(fn) ==
  LET n == Len(fn)
      m == [i \in 1..n |->
              IF fn[i] = BSL /\ i < n /\ fn[i + 1] = "n" THEN NL
              ELSE IF fn[i] = "n" /\ i > 1 /\ fn[i - 1] = BSL THEN DROPPED
              ELSE fn[i]]
  IN SelectSeq(m, LAMBDA c : c # DROPPED)

\* One iteration of the splice loop, lines 251-258: the working string after it.
SpliceOnce(s, startIdx) ==
  LET stopFuncIdx == IndexOf(s, FUNC_STOP)
      fn == UnescapeNewlines(Substring(s, startIdx + Len(FUNC_START), stopFuncIdx))
  IN Substring(s, 0, startIdx - 1) \o fn
     \o SubstringFrom(s, stopFuncIdx + Len(FUNC_STOP) + 1)

\* History: where each character of JsonStringify(v) comes from: "start" and
\* "stop" for the characters of a marker the replacer inserted, "quote" for
\* the quotes JSON put around a marked span, "user" for all the rest. The
\* encoding is taken with the markers replaced by runs of a token that no
\* text holds, which has the same length.
START_TOKEN == "<start>"
STOP_TOKEN == "<stop>"
Origins(v) ==
  LET t == JsonStringifyWith(v, Rep(Len(FUNC_START), <<START_TOKEN>>),
                             Rep(Len(FUNC_STOP), <<STOP_TOKEN>>))
  IN [i \in 1..Len(t) |->
        CASE t[i] = START_TOKEN -> "start"
          [] t[i] = STOP_TOKEN -> "stop"
          [] t[i] = QUOTE /\ i < Len(t) /\ t[i + 1] = START_TOKEN -> "quote"
          [] t[i] = QUOTE /\ i > 1 /\ t[i - 1] = STOP_TOKEN -> "quote"
          [] OTHER -> "user"]

\* History: the origins of the characters of UnescapeNewlines(fn), where o
\* holds the origins of the characters of fn.
UnescapeOrigins(fn, o) ==
  LET m == [i \in 1..Len(fn) |->
              IF fn[i] = "n" /\ i > 1 /\ fn[i - 1] = BSL THEN DROPPED ELSE o[i]]
  IN SelectSeq(m, LAMBDA c : c # DROPPED)

\* History: the origins of the characters of SpliceOnce(s, startIdx).
SpliceOrigins(s, o, startIdx) ==
  LET stopFuncIdx == IndexOf(s, FUNC_STOP)
      lo == startIdx + Len(FUNC_START)
  IN Substring(o, 0, startIdx - 1)
     \o UnescapeOrigins(Substring(s, lo, stopFuncIdx), Substring(o, lo, stopFuncIdx))
     \o SubstringFrom(o, stopFuncIdx + Len(FUNC_STOP) + 1)

\* History: how many characters of an inserted marker, or of the quotes
\* around one, the text still holds.
Leftover(o) == Cardinality({i \in 1..Len(o) : o[i] # "user"})

(***************************************************************************)
(* Objects as assign sees them: the own enumerable properties (own), the   *)
(* enumerable properties inherited from the prototype chain (inh), and     *)
(* whether source.hasOwnProperty resolves to the method (hop; it does not  *)
(* for an object created with a null prototype).                           *)
(***************************************************************************)
EmptyObj == ObjV(<<>>, <<>>)
Source(kind, own, inh, hop) == [kind |-> kind, own |-> own, inh |-> inh, hop |-> hop]
PlainObject(own) == Source("object", own, EmptyObj, TRUE)
InheritingObject(own, inh) == Source("object", own, inh, TRUE)
NullProtoObject(own) == Source("object", own, EmptyObj, FALSE)
UndefinedSource == Source("undefined", EmptyObj, EmptyObj, FALSE)
NullSource == Source("null", EmptyObj, EmptyObj, FALSE)
\* An option set that is the output object itself (the target passed again).
SelfSource == Source("self", EmptyObj, EmptyObj, TRUE)

HasKey(o, k) == \E i \in 1..Len(o.keys) : o.keys[i] = k
KeyIndex(o, k) == CHOOSE i \in 1..Len(o.keys) : o.keys[i] = k
\* o[k]: undefined when the property is absent.
Get(o, k) == IF HasKey(o, k) THEN o.kids[KeyIndex(o, k)] ELSE Undefined
\* o[k] = v: an existing property keeps its place, a new one is added last.
Put(o, k, v) ==
  IF HasKey(o, k)
  THEN ObjV(o.keys, [o.kids EXCEPT ![KeyIndex(o, k)] = v])
  ELSE ObjV(Append(o.keys, k), Append(o.kids, v))

K_appRoot == <<"a","p","p","R","o","o","t">>
K_buffer == <<"b","u","f","f","e","r">>
K_minify == <<"m","i","n","i","f","y">>
K_replay == <<"r","e","p","l","a","y">>
K_eventSelectors == <<"e","v","e","n","t","S","e","l","e","c","t","o","r","s">>
K_selector == <<"s","e","l","e","c","t","o","r">>
K_events == <<"e","v","e","n","t","s">>
K_preventDefault == <<"p","r","e","v","e","n","t","D","e","f","a","u","l","t">>
K_keyCodes == <<"k","e","y","C","o","d","e","s">>
K_freeze == <<"f","r","e","e","z","e">>
K_action == <<"a","c","t","i","o","n">>

initFunctionName == <<"p","r","e","b","o","o","t","I","n","i","t","F","n">>

\* defaultOptions as the module defines it, lines 36-83.
DefaultEventSelectors ==
  ArrV(<<
    ObjV(<<K_selector, K_events>>,
         <<StrV(<<"i","n","p","u","t",",","t","e","x","t","a","r","e","a">>),
           ArrV(<<StrV(<<"k","e","y","p","r","e","s","s">>), StrV(<<"k","e","y","u","p">>), StrV(<<"k","e","y","d","o","w","n">>),
                  StrV(<<"i","n","p","u","t">>), StrV(<<"c","h","a","n","g","e">>)>>)>>),
    ObjV(<<K_selector, K_events>>,
         <<StrV(<<"s","e","l","e","c","t",",","o","p","t","i","o","n">>), ArrV(<<StrV(<<"c","h","a","n","g","e">>)>>)>>),
    ObjV(<<K_selector, K_events, K_preventDefault, K_keyCodes, K_freeze>>,
         <<StrV(<<"i","n","p","u","t">>), ArrV(<<StrV(<<"k","e","y","u","p">>)>>), TrueV,
           ArrV(<<LitV(<<"1","3">>)>>), TrueV>>),
    ObjV(<<K_selector, K_events, K_preventDefault, K_freeze>>,
         <<StrV(<<"f","o","r","m">>), ArrV(<<StrV(<<"s","u","b","m","i","t">>)>>), TrueV, TrueV>>),
    ObjV(<<K_selector, K_events, K_replay>>,
         <<StrV(<<"i","n","p","u","t",",","t","e","x","t","a","r","e","a">>),
           ArrV(<<StrV(<<"f","o","c","u","s","i","n">>), StrV(<<"f","o","c","u","s","o","u","t">>), StrV(<<"m","o","u","s","e","d","o",
      "w","n">>),
                  StrV(<<"m","o","u","s","e","u","p">>)>>),
           FalseV>>),
    ObjV(<<K_selector, K_events, K_preventDefault, K_freeze>>,
         <<StrV(<<"b","u","t","t","o","n">>), ArrV(<<StrV(<<"c","l","i","c","k">>)>>), TrueV, TrueV>>)
  >>)

InitialDefaultOptions ==
  ObjV(<<K_buffer, K_minify, K_replay, K_eventSelectors>>,
       <<TrueV, TrueV, TrueV, DefaultEventSelectors>>)

(***************************************************************************)
(* assign, lines 203-221.                                                  *)
(***************************************************************************)
\* The keys a for-in loop over the source visits: its own enumerable
\* properties, then the inherited ones that no own property shadows.
ForInKeys(src) ==
  src.own.keys \o SelectSeq(src.inh.keys, LAMBDA k : ~HasKey(src.own, k))

\* source[nextKey]: the own property, else the inherited one.
Lookup(src, k) == IF HasKey(src.own, k) THEN Get(src.own, k) ELSE Get(src.inh, k)

\* source.hasOwnProperty && source.hasOwnProperty(nextKey), line 213.
OwnPropertyGuard(src, k) == src.hop /\ HasKey(src.own, k)

RECURSIVE CopyKeys(_, _, _)
CopyKeys(output, src, ks) ==
  IF ks = <<>> THEN output
  ELSE CopyKeys(IF OwnPropertyGuard(src, Head(ks))
                THEN Put(output, Head(ks), Lookup(src, Head(ks)))
                ELSE output,
                src, Tail(ks))

\* The body of the loop over optionSets, lines 210-217.
AssignOne(output, src) ==
  CASE src.kind = "object" -> CopyKeys(output, src, ForInKeys(src))
    [] src.kind = "self" -> CopyKeys(output, PlainObject(output), output.keys)
    [] OTHER -> output

\* The properties of the output object after the loop over optionSets. The
\* output object is Object(target), line 208, which for an object target is
\* the target itself: these are the target's properties after the call.
RECURSIVE Assign(_, _)
Assign(target, optionSets) ==
  IF optionSets = <<>> THEN target
  ELSE Assign(AssignOne(target, Head(optionSets)), Tail(optionSets))

\* Object(target), line 208: the reference the output variable holds. For an
\* object it is the same reference, not a copy.
ObjectOf(targetRef) == targetRef

(***************************************************************************)
(* validateOptions, lines 184-192.                                         *)
(***************************************************************************)
\* !!v for the values a configuration holds.
Truthy(v) ==
  CASE v.t = "undef" -> FALSE
    [] v.t = "str" -> Len(v.s) > 0
    [] v.t = "lit" -> v.s \notin {<<"f","a","l","s","e">>, <<"n","u","l","l">>, <<"0">>}
    [] OTHER -> TRUE

\* !!v.length: a string's or an array's length; no length property otherwise.
LengthTruthy(v) ==
  CASE v.t = "str" -> Len(v.s) > 0
    [] v.t = "arr" -> Len(v.kids) > 0
    [] OTHER -> FALSE

\* A validation that tests only that appRoot is truthy, not its length.
ValidateThrowsTruthyOnly(opts) == ~Truthy(Get(opts, K_appRoot))

\* The condition of line 185, under which validateOptions throws.
ValidateThrows(opts) ==
  ~Truthy(Get(opts, K_appRoot)) \/ ~LengthTruthy(Get(opts, K_appRoot))

\* assign({}, defaultOptions, customOptions), lines 118 and 146.
ResolveOptions(defaults, customOptions) ==
  Assign(EmptyObj, <<PlainObject(defaults), customOptions>>)

(***************************************************************************)
(* The procedure registry and getEventRecorderCode, lines 22-30, 89-105.   *)
(***************************************************************************)
\* The keys of eventRecorder in insertion order.
RegistryOrder ==
  <<"start", "createOverlay", "getAppRoots", "handleEvents", "createListenHandler",
    "getSelection", "createBuffer">>
NodeKeyHelper == "getNodeKeyForPreboot"
InitProc == "init"
Procs == {RegistryOrder[i] : i \in 1..Len(RegistryOrder)} \cup {NodeKeyHelper, InitProc}

COMMON_PREFIX == <<"c","o","m","m","o","n","_","1",".">>
BLANK_LINE == <<NL, NL>>

\* fn.replace('common_1.', ''), lines 95 and 129.
StripPrefix(fn) == ReplaceFirst(fn, COMMON_PREFIX, <<>>)

\* The element pushed for one registry procedure, lines 94-96.
CleanedSource(reg, p) == StripPrefix(reg[p])

\* The element pushed for the node-key helper, line 101.
HelperSource(reg) == reg[NodeKeyHelper]

EventRecorderFunctions(reg) ==
  [i \in 1..Len(RegistryOrder) |-> CleanedSource(reg, RegistryOrder[i])]
  \o <<HelperSource(reg)>>

GetEventRecorderCode(reg) ==
  BLANK_LINE \o Join(EventRecorderFunctions(reg), BLANK_LINE) \o BLANK_LINE

(***************************************************************************)
(* The texts of the three emission functions, lines 127-130, 153, 174-177. *)
(***************************************************************************)
DefinitionText(reg) ==
  <<"v","a","r"," ">> \o initFunctionName \o <<" ","="," ","(","f","u","n","c","t","i","o","n","(",")",
      " ","{","\n"," "," "," "," "," "," ">>
  \o GetEventRecorderCode(reg)
  \o <<"\n"," "," "," "," "," "," ","r","e","t","u","r","n"," ","(">> \o StripPrefix(reg[InitProc]) \o <<")",";","\n"," "," "," "," ","}",
      ")","(",")",";">>

InvocationText(optsStr) == initFunctionName \o <<"(">> \o optsStr \o <<")",";">>

CombinedText(inlineCodeDefinition, inlineCodeInvocation) ==
  <<"(","f","u","n","c","t","i","o","n","(",")"," ","{","\n"," "," "," "," "," "," ">> \o inlineCodeDefinition
  \o <<"\n"," "," "," "," "," "," ">> \o inlineCodeInvocation \o <<"\n"," "," "," "," ","}",")","(",")">>

(***************************************************************************)
(* The source text of the procedures the module imports, lines 11-20 and   *)
(* 9: what fn.toString() returns. The text is not fixed by this module, so *)
(* it is an input: a declaration whose body holds k qualified references.  *)
(***************************************************************************)
ProcName(p) ==
  CASE p = "start" -> <<"s","t","a","r","t">>
    [] p = "createOverlay" -> <<"c","r","e","a","t","e","O","v","e","r","l","a","y">>
    [] p = "getAppRoots" -> <<"g","e","t","A","p","p","R","o","o","t","s">>
    [] p = "handleEvents" -> <<"h","a","n","d","l","e","E","v","e","n","t","s">>
    [] p = "createListenHandler" -> <<"c","r","e","a","t","e","L","i","s","t","e","n","H","a",
      "n","d","l","e","r">>
    [] p = "getSelection" -> <<"g","e","t","S","e","l","e","c","t","i","o","n">>
    [] p = "createBuffer" -> <<"c","r","e","a","t","e","B","u","f","f","e","r">>
    [] p = "getNodeKeyForPreboot" -> <<"g","e","t","N","o","d","e","K","e","y","F","o","r","P",
      "r","e","b","o","o","t">>
    [] p = "init" -> <<"i","n","i","t">>

ProcSource(p, k) ==
  <<"f","u","n","c","t","i","o","n"," ">> \o ProcName(p) \o <<"(",")","{">>
  \o Rep(k, COMMON_PREFIX \o <<"x","(",")",";">>) \o <<"}">>

RegistryOf(occ) == [p \in Procs |-> ProcSource(p, occ[p])]

\* Registries in which at most two procedures hold qualified references.
Registries ==
  {RegistryOf([p \in Procs |-> IF p = p1 THEN k1 ELSE IF p = p2 THEN k2 ELSE 0]) :
     p1 \in Procs, p2 \in Procs, k1 \in 0..MaxOcc, k2 \in 0..MaxOcc}

PlainRegistry == RegistryOf([p \in Procs |-> 0])

(***************************************************************************)
(* Caller-supplied texts and values.                                       *)
(***************************************************************************)
Pieces ==
  {<<"a">>, <<QUOTE>>, <<BSL>>, <<BSL, "n">>, <<NL>>, <<TAB>>, FUNC_START, FUNC_STOP}

RECURSIVE TextsOf(_)
TextsOf(n) ==
  IF n = 0 THEN {<<>>}
  ELSE TextsOf(n - 1) \cup {t \o p : t \in TextsOf(n - 1), p \in Pieces}

\* The source of a caller's function whose body is t.
FnSource(t) == <<"f","u","n","c","t","i","o","n","(",")","{">> \o t \o <<"}">>

K_a == <<"a">>
K_b == <<"b">>
K_e == <<"e">>
K_f == <<"f">>
K_g == <<"g">>

\* The values stringifyWithFunctions is called with: an object of one string;
\* a string and a function; two functions around a string; two functions
\* nested in an array and an object; a function alone.
SerializerInputs ==
  {ObjV(<<K_a>>, <<StrV(s)>>) : s \in TextsOf(MaxPieces)}
  \cup {ObjV(<<K_a, K_f>>, <<StrV(s), FnV(FnSource(t))>>) :
          s \in TextsOf(1), t \in TextsOf(MaxPieces)}
  \cup {ObjV(<<K_f, K_a, K_g>>, <<FnV(FnSource(t1)), StrV(s), FnV(FnSource(t2))>>) :
          t1 \in TextsOf(1), s \in TextsOf(1), t2 \in TextsOf(1)}
  \cup {ObjV(<<K_e, K_b>>,
             <<ArrV(<<ObjV(<<K_f>>, <<FnV(FnSource(t1))>>), FnV(FnSource(t2))>>), TrueV>>) :
          t1 \in TextsOf(1), t2 \in TextsOf(1)}
  \cup {FnV(FnSource(t)) : t \in TextsOf(MaxPieces)}

AppRootApp == StrV(<<"a","p","p">>)
CustomSelectors ==
  ArrV(<<ObjV(<<K_selector, K_events, K_action>>,
              <<StrV(<<"a">>), ArrV(<<StrV(<<"c","l","i","c","k">>)>>), FnV(FnSource(<<"a">>))>>)>>)

\* The customOptions the emission functions are called with.
Overrides ==
  { UndefinedSource,
    PlainObject(EmptyObj),
    PlainObject(ObjV(<<K_appRoot>>, <<AppRootApp>>)),
    PlainObject(ObjV(<<K_appRoot>>, <<StrV(<<>>)>>)),
    PlainObject(ObjV(<<K_appRoot>>, <<ArrV(<<>>)>>)),
    PlainObject(ObjV(<<K_appRoot>>, <<ArrV(<<AppRootApp, StrV(<<>>)>>)>>)),
    PlainObject(ObjV(<<K_appRoot>>, <<Undefined>>)),
    PlainObject(ObjV(<<K_appRoot, K_buffer>>, <<AppRootApp, FalseV>>)),
    PlainObject(ObjV(<<K_eventSelectors, K_appRoot>>, <<CustomSelectors, AppRootApp>>)),
    PlainObject(ObjV(<<K_appRoot>>, <<StrV(FUNC_START)>>)),
    InheritingObject(EmptyObj, ObjV(<<K_appRoot>>, <<AppRootApp>>)),
    NullProtoObject(ObjV(<<K_appRoot>>, <<AppRootApp>>)) }

FewOverrides ==
  { UndefinedSource,
    PlainObject(ObjV(<<K_appRoot>>, <<AppRootApp>>)),
    PlainObject(ObjV(<<K_eventSelectors, K_appRoot>>, <<CustomSelectors, AppRootApp>>)) }

\* An argument of assign: a reference to the exported defaultOptions, or an
\* object (or undefined, or null) of the caller's own.
RefArg == [ref |-> "defaultOptions", src |-> UndefinedSource]
OwnArg(src) == [ref |-> "own", src |-> src]

RECURSIVE SeqsUpTo(_, _)
SeqsUpTo(S, n) ==
  IF n = 0 THEN {<<>>}
  ELSE SeqsUpTo(S, n - 1) \cup {Append(q, x) : q \in SeqsUpTo(S, n - 1), x \in S}

\* The few assign calls explored next to the emission functions.
FewTargets == {RefArg, OwnArg(PlainObject(EmptyObj)), OwnArg(NullSource)}
FewSets ==
  SeqsUpTo({OwnArg(PlainObject(ObjV(<<K_appRoot>>, <<AppRootApp>>))),
            OwnArg(PlainObject(ObjV(<<K_buffer>>, <<FalseV>>)))}, MaxSets)

\* The assign calls explored on their own.
ManyTargets ==
  {RefArg, OwnArg(PlainObject(EmptyObj)),
   OwnArg(PlainObject(ObjV(<<K_appRoot, K_buffer>>, <<AppRootApp, TrueV>>))),
   OwnArg(NullSource), OwnArg(UndefinedSource)}
ManySets ==
  SeqsUpTo({RefArg, OwnArg(UndefinedSource), OwnArg(NullSource),
            OwnArg(PlainObject(ObjV(<<K_appRoot>>, <<AppRootApp>>))),
            OwnArg(PlainObject(ObjV(<<K_buffer, K_eventSelectors>>,
                                    <<FalseV, CustomSelectors>>))),
            OwnArg(InheritingObject(ObjV(<<K_minify>>, <<FalseV>>),
                                    ObjV(<<K_appRoot>>, <<StrV(<<"b">>)>>))),
            OwnArg(NullProtoObject(ObjV(<<K_appRoot>>, <<StrV(<<"c">>)>>)))}, MaxSets)

\* The values validateOptions and stringifyWithFunctions are called with next
\* to the emission functions.
FewOptions ==
  {EmptyObj, ObjV(<<K_appRoot>>, <<AppRootApp>>), ObjV(<<K_appRoot>>, <<ArrV(<<>>)>>)}
FewSerializerInputs ==
  {ObjV(<<K_appRoot>>, <<AppRootApp>>),
   ObjV(<<K_a, K_f>>, <<StrV(<<QUOTE>>), FnV(FnSource(<<NL>>))>>),
   ObjV(<<K_a>>, <<StrV(FUNC_START)>>)}

(***************************************************************************)
(* Calls and their results.                                                *)
(***************************************************************************)
NoAux ==
  [outRef |-> "none", targetRef |-> "none", targetBefore |-> EmptyObj,
   targetAfter |-> EmptyObj, setsBefore |-> <<>>, setsAfter |-> <<>>,
   leftover |-> 0, iters |-> 0]

Res(fn, arg, status, text, steps, opts, aux) ==
  [fn |-> fn, arg |-> arg, status |-> status, text |-> text, steps |-> steps,
   opts |-> opts, aux |-> aux]

NoResult == Res("none", Undefined, "none", <<>>, <<>>, EmptyObj, NoAux)
\* The history is not kept.
HistoryOff == Res("off", Undefined, "none", <<>>, <<>>, EmptyObj, NoAux)

NoCall == [fn |-> "none", arg |-> Undefined, opts |-> EmptyObj, steps |-> <<>>, head |-> <<>>]

\* The functions whose results the history keeps.
HistoryFns ==
  {"getInlinePrebootCodeDefinition", "getInlinePrebootCodeInvocation",
   "stringifyWithFunctions"}

\* A call completes (returns or throws) with result r. The history keeps the
\* first completed call it chooses to keep.
Complete(r) ==
  /\ result' = r
  /\ tracked' \in (IF tracked = NoResult /\ r.fn \in HistoryFns
                   THEN {NoResult, r} ELSE {tracked})
  /\ pc' = "idle"
  /\ call' = NoCall
  /\ str' = <<>>
  /\ startFuncIdx' = -1
  /\ origin' = <<>>
  /\ iters' = 0

\* A call enters the splice loop of stringifyWithFunctions on value v,
\* lines 237-247. No call has completed since it started.
EnterLoop(c, v) ==
  /\ pc' = "loop"
  /\ call' = c
  /\ str' = JsonStringify(v)
  /\ startFuncIdx' = IndexOf(JsonStringify(v), FUNC_START)
  /\ origin' = Origins(v)
  /\ iters' = 0
  /\ result' = NoResult
  /\ UNCHANGED tracked

\* getEventRecorderCode(), lines 89-105.
CallGetEventRecorderCode ==
  /\ pc = "idle"
  /\ Complete(Res("getEventRecorderCode", Undefined, "return",
                  GetEventRecorderCode(registry), <<"getEventRecorderCode">>,
                  EmptyObj, NoAux))
  /\ UNCHANGED <<defaultOptions, registry, input>>

\* validateOptions(opts), lines 184-192.
CallValidateOptions(opts) ==
  /\ pc = "idle"
  /\ Complete(Res("validateOptions", opts,
                  IF ValidateThrows(opts) THEN "Error" ELSE "return",
                  <<>>, <<"validateOptions">>, opts, NoAux))
  /\ UNCHANGED <<defaultOptions, registry, input>>

\* The object an argument of assign denotes.
Deref(a) == IF a.ref = "defaultOptions" THEN PlainObject(defaultOptions) ELSE a.src

\* assign(target, ...optionSets), lines 203-221.
CallAssign(targetArg, sets) ==
  /\ pc = "idle"
  /\ LET target == Deref(targetArg)
         aliased(i) == sets[i].ref = "defaultOptions" /\ targetArg.ref = "defaultOptions"
         sources == [i \in 1..Len(sets) |->
                       IF aliased(i) THEN SelfSource ELSE Deref(sets[i])]
         after == Assign(target.own, sources)
         outRef == ObjectOf(targetArg.ref)
         written == outRef = targetArg.ref
         targetAfter == IF written THEN after ELSE target.own
     IN IF target.kind # "object"
        THEN /\ Complete(Res("assign", <<targetArg, sets>>, "TypeError", <<>>,
                             <<"assign">>, EmptyObj, NoAux))
             /\ UNCHANGED defaultOptions
        ELSE /\ defaultOptions' =
                  IF targetArg.ref = "defaultOptions" THEN targetAfter ELSE defaultOptions
             /\ Complete(Res("assign", <<targetArg, sets>>, "return", <<>>,
                             <<"assign">>, after,
                             [NoAux EXCEPT
                              !.outRef = outRef, !.targetRef = targetArg.ref,
                              !.targetBefore = target.own,
                              !.targetAfter = targetAfter,
                              !.setsBefore = [i \in 1..Len(sets) |-> Deref(sets[i])],
                              !.setsAfter =
                                [i \in 1..Len(sets) |->
                                   IF aliased(i) THEN PlainObject(targetAfter)
                                   ELSE Deref(sets[i])]]))
  /\ UNCHANGED <<registry, input>>

\* getInlinePrebootCodeDefinition(customOptions), lines 117-131.
CallDefinition(customOptions) ==
  /\ pc = "idle"
  /\ LET opts == ResolveOptions(defaultOptions, customOptions)
         fn == "getInlinePrebootCodeDefinition"
     IN IF ValidateThrows(opts)
        THEN Complete(Res(fn, customOptions, "Error", <<>>,
                          <<"assign", "validateOptions">>, opts, NoAux))
        ELSE Complete(Res(fn, customOptions, "return", DefinitionText(registry),
                          <<"assign", "validateOptions", "getEventRecorderCode",
                            "init.toString">>, opts, NoAux))
  /\ UNCHANGED <<defaultOptions, registry, input>>

\* getInlinePrebootCodeInvocation(customOptions), lines 145-154, up to the
\* splice loop of stringifyWithFunctions(opts).
CallInvocation(customOptions) ==
  /\ pc = "idle"
  /\ LET opts == ResolveOptions(defaultOptions, customOptions)
         fn == "getInlinePrebootCodeInvocation"
     IN IF ValidateThrows(opts)
        THEN Complete(Res(fn, customOptions, "Error", <<>>,
                          <<"assign", "validateOptions">>, opts, NoAux))
        ELSE EnterLoop([fn |-> fn, arg |-> customOptions, opts |-> opts,
                        steps |-> <<"assign", "validateOptions",
                                    "stringifyWithFunctions">>,
                        head |-> <<>>], opts)
  /\ UNCHANGED <<defaultOptions, registry, input>>

\* getInlinePrebootCode(customOptions), lines 169-178: the definition, line
\* 170, then the invocation, line 171, up to its splice loop.
CallCombined(customOptions) ==
  /\ pc = "idle"
  /\ LET opts == ResolveOptions(defaultOptions, customOptions)
         fn == "getInlinePrebootCode"
     IN IF ValidateThrows(opts)
        THEN Complete(Res(fn, customOptions, "Error", <<>>,
                          <<"assign", "validateOptions">>, opts, NoAux))
        ELSE EnterLoop([fn |-> fn, arg |-> customOptions, opts |-> opts,
                        steps |-> <<"assign", "validateOptions", "getEventRecorderCode",
                                    "init.toString", "assign", "validateOptions",
                                    "stringifyWithFunctions">>,
                        head |-> DefinitionText(registry)], opts)
  /\ UNCHANGED <<defaultOptions, registry, input>>

\* stringifyWithFunctions(obj), lines 232-247, up to the splice loop.
CallStringify(obj) ==
  /\ pc = "idle"
  /\ EnterLoop([fn |-> "stringifyWithFunctions", arg |-> obj, opts |-> EmptyObj,
                steps |-> <<"stringifyWithFunctions">>, head |-> <<>>], obj)
  /\ UNCHANGED <<defaultOptions, registry, input>>

\* One iteration of the splice loop, lines 250-260.
LoopIter ==
  /\ pc = "loop"
  /\ startFuncIdx >= 0
  /\ iters < MaxIters
  /\ str' = SpliceOnce(str, startFuncIdx)
  /\ startFuncIdx' = IndexOf(SpliceOnce(str, startFuncIdx), FUNC_START)
  /\ origin' = SpliceOrigins(str, origin, startFuncIdx)
  /\ iters' = iters + 1
  /\ UNCHANGED <<defaultOptions, registry, input, pc, call, result, tracked>>

\* The loop ends, line 250, stringifyWithFunctions returns str, line 262, and
\* the caller builds its text from it, lines 153 and 174-177.
LoopExit ==
  /\ pc = "loop"
  /\ startFuncIdx < 0
  /\ LET text ==
           CASE call.fn = "stringifyWithFunctions" -> str
             [] call.fn = "getInlinePrebootCodeInvocation" -> InvocationText(str)
             [] call.fn = "getInlinePrebootCode" ->
                  CombinedText(call.head, InvocationText(str))
     IN Complete(Res(call.fn, call.arg, "return", text, call.steps, call.opts,
                     [NoAux EXCEPT !.leftover = Leftover(origin), !.iters = iters]))
  /\ UNCHANGED <<defaultOptions, registry, input>>

(***************************************************************************)
(* Specifications.                                                         *)
(***************************************************************************)
InitWith(reg, hist, in) ==
  /\ defaultOptions = InitialDefaultOptions
  /\ registry = reg
  /\ input = in
  /\ pc = "idle"
  /\ call = NoCall
  /\ str = <<>>
  /\ startFuncIdx = -1
  /\ origin = <<>>
  /\ iters = 0
  /\ result = NoResult
  /\ tracked = hist

\* Every exported function, called in any order.
Init == InitWith(PlainRegistry, HistoryOff, Undefined)

Next ==
  \/ CallGetEventRecorderCode
  \/ \E o \in FewOptions : CallValidateOptions(o)
  \/ \E t \in FewTargets, s \in FewSets : CallAssign(t, s)
  \/ \E o \in Overrides : CallDefinition(o)
  \/ \E o \in Overrides : CallInvocation(o)
  \/ \E o \in Overrides : CallCombined(o)
  \/ \E v \in FewSerializerInputs : CallStringify(v)
  \/ LoopIter
  \/ LoopExit

Spec == Init /\ [][Next]_vars

\* The same on fewer arguments, keeping one earlier result to compare later
\* results with.
InitHistory == InitWith(PlainRegistry, NoResult, Undefined)

NextHistory ==
  \/ CallGetEventRecorderCode
  \/ \E o \in FewOptions : CallValidateOptions(o)
  \/ \E t \in FewTargets, s \in FewSets : CallAssign(t, s)
  \/ \E o \in FewOverrides : CallDefinition(o)
  \/ \E o \in FewOverrides : CallInvocation(o)
  \/ \E o \in FewOverrides : CallCombined(o)
  \/ \E v \in FewSerializerInputs : CallStringify(v)
  \/ LoopIter
  \/ LoopExit

SpecHistory == InitHistory /\ [][NextHistory]_vars

\* The serializer on its own, on every value of SerializerInputs.
InitSerializer == \E v \in SerializerInputs : InitWith(PlainRegistry, HistoryOff, v)

NextSerializer ==
  \/ CallStringify(input)
  \/ LoopIter
  \/ LoopExit

SpecSerializer == InitSerializer /\ [][NextSerializer]_vars

\* assign on its own.
NextAssign == \E t \in ManyTargets, s \in ManySets : CallAssign(t, s)

SpecAssign == Init /\ [][NextAssign]_vars

\* The registry on its own, for every registry.
InitRegistry == \E reg \in Registries : InitWith(reg, HistoryOff, Undefined)

NextRegistry ==
  \/ CallGetEventRecorderCode
  \/ \E o \in Overrides : CallDefinition(o)

SpecRegistry == InitRegistry /\ [][NextRegistry]_vars

(***************************************************************************)
(* Definitions the properties are stated with.                             *)
(***************************************************************************)
EmissionFns ==
  {"getInlinePrebootCodeDefinition", "getInlinePrebootCodeInvocation",
   "getInlinePrebootCode"}

\* The steps of a call that generate text.
GeneratingSteps == {"getEventRecorderCode", "init.toString", "stringifyWithFunctions"}

\* The appRoot of opts is absent (no such property, or undefined) or empty
\* (the empty string, the empty array).
AppRootAbsentOrEmpty(opts) ==
  \/ ~HasKey(opts, K_appRoot)
  \/ Get(opts, K_appRoot).t = "undef"
  \/ Get(opts, K_appRoot) = StrV(<<>>)
  \/ Get(opts, K_appRoot) = ArrV(<<>>)

Returned(fn) == result.fn = fn /\ result.status = "return"

\* The number of callable fields of a value, at any depth.
RECURSIVE NumCallables(_)
NumCallables(v) ==
  IF v.t = "fn" THEN 1
  ELSE IF v.kids = <<>> THEN 0
  ELSE NumCallables(Head(v.kids)) + NumCallables([v EXCEPT !.kids = Tail(v.kids)])

\* The text a value is to be rendered as: the plain structured-data encoding
\* with, at the place of every callable field, its source text as it is.
RECURSIVE ExpectedText(_)
ExpectedText(v) ==
  CASE v.t = "fn" -> v.s
    [] v.t = "str" -> JsonQuote(v.s)
    [] v.t = "lit" -> v.s
    [] v.t = "undef" -> JsonStringify(Undefined)
    [] v.t = "arr" ->
         <<"[">> \o Join([i \in 1..Len(v.kids) |-> ExpectedText(v.kids[i])], <<",">>)
         \o <<"]">>
    [] v.t = "obj" ->
         LET idx == SelectSeq([i \in 1..Len(v.keys) |-> i], LAMBDA i : v.kids[i].t # "undef")
         IN <<"{">>
            \o Join([j \in 1..Len(idx) |->
                       JsonQuote(v.keys[idx[j]]) \o <<":">> \o ExpectedText(v.kids[idx[j]])],
                    <<",">>)
            \o <<"}">>

\* Every field name the explored objects use.
FieldNames ==
  {K_appRoot, K_buffer, K_minify, K_replay, K_eventSelectors, K_selector, K_events,
   K_preventDefault, K_keyCodes, K_freeze, K_action}

\* The value field k is to hold after a merge of the option sets into target:
\* that of the last option set that has k as an own property, else the target's.
MergedField(target, sets, k) ==
  LET owners == {i \in 1..Len(sets) : sets[i].kind = "object" /\ HasKey(sets[i].own, k)}
      last == CHOOSE i \in owners : \A j \in owners : j <= i
  IN IF owners = {} THEN Get(target, k) ELSE Get(sets[last].own, k)

\* A text with every occurrence of the module prefix removed.
RECURSIVE StripAll(_)
StripAll(s) ==
  IF IndexOf(s, COMMON_PREFIX) < 0 THEN s ELSE StripAll(ReplaceFirst(s, COMMON_PREFIX, <<>>))

\* The registry text with the prefix stripped from every procedure, in
\* registry order, the node-key helper last.
StrippedRecorderCode(reg) ==
  BLANK_LINE
  \o Join([i \in 1..Len(RegistryOrder) |-> StripAll(reg[RegistryOrder[i]])]
          \o <<StripAll(reg[NodeKeyHelper])>>, BLANK_LINE)
  \o BLANK_LINE

(***************************************************************************)
(* The properties.                                                         *)
(***************************************************************************)

\* C1: an emission function (and validateOptions itself) fails with the
\* configuration error exactly when the appRoot of the resolved options
\* assign({}, defaultOptions, O) is absent or empty, and a failing call has
\* generated no text: it has neither collected the registry source nor
\* serialized anything. A call that reached the splice loop has passed
\* validation.
C1_ValidationIffAppRootMissing ==
  /\ result.fn \in EmissionFns =>
       /\ result.opts = ResolveOptions(defaultOptions, result.arg)
       /\ (result.status = "Error") <=> AppRootAbsentOrEmpty(result.opts)
       /\ result.status \in {"Error", "return"}
  /\ result.fn = "validateOptions" =>
       ((result.status = "Error") <=> AppRootAbsentOrEmpty(result.opts))
  /\ (result.fn \in EmissionFns /\ result.status = "Error") =>
       /\ result.text = <<>>
       /\ \A i \in 1..Len(result.steps) : result.steps[i] \notin GeneratingSteps
  /\ (pc = "loop" /\ call.fn \in EmissionFns) => ~AppRootAbsentOrEmpty(call.opts)

\* C1 witness: getInlinePrebootCode has failed on an override whose appRoot is
\* the empty array, after defaultOptions was changed by an assign call.
C1_Witness ==
  /\ result.fn = "getInlinePrebootCode"
  /\ result.status = "Error"
  /\ Get(result.opts, K_appRoot) = ArrV(<<>>)
  /\ defaultOptions # InitialDefaultOptions

\* C2: after assign, every field of the output holds the value of the last
\* option set that defines it as an own property, and the target's value
\* when no option set does (no option set being the target itself).
C2_MergePrecedence ==
  (Returned("assign")
   /\ \A i \in 1..Len(result.arg[2]) :
        ~(result.arg[2][i].ref = "defaultOptions" /\ result.arg[1].ref = "defaultOptions"))
  => \A k \in FieldNames :
       Get(result.opts, k)
         = MergedField(result.aux.targetBefore, result.aux.setsBefore, k)

\* C3: for a value without callable fields, stringifyWithFunctions returns
\* the plain structured-data encoding of the value.
C3_LiteralRoundTrip ==
  (Returned("stringifyWithFunctions") /\ NumCallables(result.arg) = 0)
  => result.text = ExpectedText(result.arg)

\* C4: for a value with exactly one callable field, stringifyWithFunctions
\* returns the encoding of the value with the callable's source text,
\* character for character, at the field's place.
C4_OneCallableVerbatim ==
  (Returned("stringifyWithFunctions") /\ NumCallables(result.arg) = 1)
  => result.text = ExpectedText(result.arg)

\* C5: for a value with two or more callable fields, stringifyWithFunctions
\* returns the encoding of the value with every callable's source text intact
\* at its own field's place.
C5_TwoCallablesInPlace ==
  (Returned("stringifyWithFunctions") /\ NumCallables(result.arg) >= 2)
  => result.text = ExpectedText(result.arg)

\* C6: the text stringifyWithFunctions returns holds no character of a marker
\* the serializer inserted, nor of the quotes the encoder put around a marked
\* span.
C6_NoInsertedMarkerLeft ==
  Returned("stringifyWithFunctions") => result.aux.leftover = 0

\* C7: a Definition emission, an Invocation emission or a
\* stringifyWithFunctions call that returned a text returns the same text when
\* it is called again with the same argument, whatever was called in between;
\* and two Definition emissions that return a text return the same text.
C7_SameInputSameText ==
  (tracked.fn \in HistoryFns /\ tracked.status = "return" /\ result.fn = tracked.fn)
  => /\ result.arg = tracked.arg =>
          (result.status = "return" /\ result.text = tracked.text)
     /\ (result.fn = "getInlinePrebootCodeDefinition" /\ result.status = "return")
          => result.text = tracked.text

\* C8: assign returns an object other than its target, and leaves the target
\* and every option set with the fields and values they had before the call.
C8_AssignReturnsNewObject ==
  Returned("assign") =>
    /\ result.aux.outRef # result.aux.targetRef
    /\ result.aux.targetAfter = result.aux.targetBefore
    /\ result.aux.setsAfter = result.aux.setsBefore

\* C9: the text of getEventRecorderCode and of getInlinePrebootCodeDefinition
\* holds no occurrence of the module prefix: it is the procedures' sources
\* with every occurrence stripped, in registry order, the node-key helper last,
\* and for the definition the init procedure stripped likewise.
C9_NoPrefixInEmittedCode ==
  /\ Returned("getEventRecorderCode") =>
       /\ CountOcc(result.text, COMMON_PREFIX) = 0
       /\ result.text = StrippedRecorderCode(registry)
  /\ Returned("getInlinePrebootCodeDefinition") =>
       /\ CountOcc(result.text, COMMON_PREFIX) = 0
       /\ CountOcc(result.text, StrippedRecorderCode(registry)) = 1
       /\ CountOcc(result.text, StripAll(registry[InitProc])) >= 1

\* C10: every iteration of the splice loop strictly decreases the number of
\* start markers in the working string.
C10_StartMarkersDecrease ==
  [][(pc = "loop" /\ pc' = "loop" /\ iters' = iters + 1)
       => CountOcc(str', FUNC_START) < CountOcc(str, FUNC_START)]_vars
====
